---- MODULE Spec2Model ----
(***************************************************************************)
(* Model of database_connection_honeycomb.py: the DatabaseConnectionHoney- *)
(* comb facade (assignment lookup, query construction, datapoint decoding) *)
(* and the module-level timestamp and query-expression helpers.            *)
(*                                                                         *)
(* Encoding of Python values.  A value that may be None and is otherwise a *)
(* string is a TLA+ string, with None the reserved string "None".  A       *)
(* timestamp is a record with a kind field: "None", "datetime" or "str".   *)
(* A clock value is an integer number of hours; a datetime or a parseable  *)
(* string carries the wall-clock reading and, when aware, its UTC offset.  *)
(* A Python str built by the query helpers is a sequence of tokens.        *)
(***************************************************************************)
EXTENDS Integers, Sequences, FiniteSets, TLC

VARIABLES cfg, environment, created, call

vars == <<cfg, environment, created, call>>

(***************************************************************************)
(* Bounds                                                                  *)
(***************************************************************************)
MaxClock == 2

MaxWallClock == 5

MaxCreated == 1

MaxResults == 2

Clocks == 0..MaxClock

WallClocks == 0..MaxWallClock

UtcOffsets == {-2, -1, 0, 1, 2}

None == "None"

NoneT == [kind |-> "None"]

(***************************************************************************)
(* Timestamps                                                              *)
(***************************************************************************)
DateTime(c, a, o) == [kind |-> "datetime", clock |-> c, aware |-> a, utcoffset |-> o]

Str(c, a, o) == [kind |-> "str", parseable |-> TRUE, clock |-> c, aware |-> a, utcoffset |-> o]

BadStr == [kind |-> "str", parseable |-> FALSE, clock |-> 0, aware |-> FALSE, utcoffset |-> 0]

Raise(e) == [kind |-> "raise", error |-> e]

Return(v) == [kind |-> "return", value |-> v]

Raised(r) == r.kind = "raise"

\* datetime.replace(tzinfo = utc) on a naive value, astimezone(utc) on an aware one
to_utc(c, a, o) == IF ~a THEN DateTime(c, TRUE, 0) ELSE DateTime(c - o, TRUE, 0)

\* Faulty variant: a naive value is read in the host's local zone (one hour east of UTC).
python_datetime_utc_local(timestamp) ==
    IF timestamp.kind = "datetime"
    THEN IF ~timestamp.aware
         THEN DateTime(timestamp.clock - 1, TRUE, 0)
         ELSE DateTime(timestamp.clock - timestamp.utcoffset, TRUE, 0)
    ELSE IF timestamp.kind = "str" /\ timestamp.parseable
         THEN to_utc(timestamp.clock, timestamp.aware, timestamp.utcoffset)
         ELSE Raise("InvalidTimestamp")

python_datetime_utc(timestamp) ==
    IF timestamp.kind = "datetime"
    THEN to_utc(timestamp.clock, timestamp.aware, timestamp.utcoffset)
    ELSE \* except: dateutil.parser.parse(timestamp)
         IF timestamp.kind = "str" /\ timestamp.parseable
         THEN to_utc(timestamp.clock, timestamp.aware, timestamp.utcoffset)
         ELSE Raise("InvalidTimestamp")

\* strftime('%Y-%m-%dT%H:%M:%S.%fZ') of the UTC value: a string that reads
\* back as an aware UTC instant.
datetime_honeycomb_string(timestamp) ==
    LET datetime_utc == python_datetime_utc(timestamp)
    IN  IF Raised(datetime_utc) THEN datetime_utc
        ELSE Str(datetime_utc.clock, TRUE, 0)

(***************************************************************************)
(* Query expression strings                                                *)
(***************************************************************************)
Text(s) == [kind |-> "text", text |-> s]

Tok(t) == [t |-> t, v |-> NoneT]

TokV(t, v) == [t |-> t, v |-> v]

NoChildren == [present |-> FALSE, list |-> <<>>]

Children(l) == [present |-> TRUE, list |-> l]

RECURSIVE Join(_)
\* ', '.join(list)
Join(l) ==
    IF Len(l) = 0 THEN <<>>
    ELSE IF Len(l) = 1 THEN l[1]
    ELSE l[1] \o <<Tok(", ")>> \o Join(Tail(l))

query_expression_string(field_string, operator_string, value_string, children_query_expression_string_list) ==
    <<Tok("{")>>
    \o (IF field_string # None THEN <<TokV("field", Text(field_string))>> ELSE <<>>)
    \o (IF operator_string # None THEN <<TokV("operator", Text(operator_string))>> ELSE <<>>)
    \o (IF value_string.kind # "None" THEN <<TokV("value", value_string)>> ELSE <<>>)
    \o (IF children_query_expression_string_list.present
        THEN <<Tok("children: [")>> \o Join(children_query_expression_string_list.list) \o <<Tok("]")>>
        ELSE <<>>)
    \o <<Tok("}")>>

assignment_ids_query_expression_string(assignment_ids) ==
    query_expression_string(None, "OR", NoneT,
        Children([i \in 1..Len(assignment_ids) |->
            query_expression_string("observer", "EQ",
                IF assignment_ids[i] = None THEN NoneT ELSE Text(assignment_ids[i]),
                NoChildren)]))

start_time_query_expression_string(start_time) ==
    LET start_time_honeycomb_string == datetime_honeycomb_string(start_time)
    IN  IF Raised(start_time_honeycomb_string) THEN start_time_honeycomb_string
        ELSE Return(query_expression_string("observed_time", "GTE", start_time_honeycomb_string, NoChildren))

end_time_query_expression_string(end_time) ==
    LET end_time_honeycomb_string == datetime_honeycomb_string(end_time)
    IN  IF Raised(end_time_honeycomb_string) THEN end_time_honeycomb_string
        ELSE Return(query_expression_string("observed_time", "LTE", end_time_honeycomb_string, NoChildren))

\* Faulty variant: the end-time bound is appended before the start-time bound.
combined_query_expression_string_swapped(assignment_ids, start_time, end_time) ==
    LET assignment_ids_string == assignment_ids_query_expression_string(assignment_ids)
        start_time_string == start_time_query_expression_string(start_time)
        end_time_string == end_time_query_expression_string(end_time)
    IN  IF start_time.kind # "None" /\ Raised(start_time_string) THEN start_time_string
        ELSE IF end_time.kind # "None" /\ Raised(end_time_string) THEN end_time_string
        ELSE Return(query_expression_string(None, "AND", NoneT,
                Children(<<assignment_ids_string>>
                    \o (IF end_time.kind # "None" THEN <<end_time_string.value>> ELSE <<>>)
                    \o (IF start_time.kind # "None" THEN <<start_time_string.value>> ELSE <<>>))))

combined_query_expression_string(assignment_ids, start_time, end_time) ==
    LET assignment_ids_string == assignment_ids_query_expression_string(assignment_ids)
        start_time_string == start_time_query_expression_string(start_time)
        end_time_string == end_time_query_expression_string(end_time)
    IN  IF start_time.kind # "None" /\ Raised(start_time_string) THEN start_time_string
        ELSE IF end_time.kind # "None" /\ Raised(end_time_string) THEN end_time_string
        ELSE Return(query_expression_string(None, "AND", NoneT,
                Children(<<assignment_ids_string>>
                    \o (IF start_time.kind # "None" THEN <<start_time_string.value>> ELSE <<>>)
                    \o (IF end_time.kind # "None" THEN <<end_time_string.value>> ELSE <<>>))))

\* _fetch_datapoints_object_time_series_query_string_template.format(...)
fetch_datapoints_object_time_series_query_string(query_expression_string_) ==
    <<Tok("query fetchDataTimeSeries { findDatapoints(query: ")>>
    \o query_expression_string_
    \o <<Tok(") { data { data_id observed_time observer file } } }")>>

(***************************************************************************)
(* The facade: configuration and environment snapshot                      *)
(***************************************************************************)
Facades == {"F1", "F2"}

Config(ts, ob, env) ==
    [time_series_database |-> ts, object_database |-> ob,
     environment_name_honeycomb |-> env,
     object_type_honeycomb |-> "DEVICE",
     object_id_field_name_honeycomb |-> "part_number"]

\* dict.get(key): None when the key is absent
Get(d, k) == IF k \in DOMAIN d THEN d[k] ELSE None

Assignment(id, type, assigned, start, end) ==
    [assignment_id |-> id, start |-> start, end |-> end,
     assigned_type |-> type, assigned |-> assigned]

Device(part_number) == [part_number |-> part_number, tag_id |-> "T1"]

Person(name) == [name |-> name]

NotLoaded == [loaded |-> FALSE, name |-> None, assignments |-> <<>>]

Snapshot(name, assignments) == [loaded |-> TRUE, name |-> name, assignments |-> assignments]

\* Faulty variant: an object time series database is accepted without an environment name.
init_accepts_no_environment(c) ==
    /\ ~(~c.time_series_database /\ ~c.object_database)
    /\ ~(c.time_series_database /\ c.object_database /\ c.object_type_honeycomb = None)
    /\ ~(c.time_series_database /\ c.object_database /\ c.object_id_field_name_honeycomb = None)

\* The ValueError checks of the constructor: TRUE when construction goes through.
init_accepts(c) ==
    /\ ~(~c.time_series_database /\ ~c.object_database)
    /\ ~(c.time_series_database /\ c.object_database /\ c.environment_name_honeycomb = None)
    /\ ~(c.time_series_database /\ c.object_database /\ c.object_type_honeycomb = None)
    /\ ~(c.time_series_database /\ c.object_database /\ c.object_id_field_name_honeycomb = None)

\* self.environment is set only when an environment name is configured
init_environment(c, remote_assignments) ==
    IF c.environment_name_honeycomb # None
    THEN Snapshot(c.environment_name_honeycomb, remote_assignments)
    ELSE NotLoaded

(***************************************************************************)
(* Assignment resolution                                                   *)
(***************************************************************************)
\* Faulty variant: an assignment starting exactly at the timestamp is skipped.
starts_after_timestamp_strict(timestamp_datetime, start) ==
    start.kind # "None" /\ timestamp_datetime.clock <= python_datetime_utc(start).clock

starts_after_timestamp(timestamp_datetime, start) ==
    start.kind # "None" /\ timestamp_datetime.clock < python_datetime_utc(start).clock

ends_before_timestamp(timestamp_datetime, end) ==
    end.kind # "None" /\ timestamp_datetime.clock > python_datetime_utc(end).clock

RECURSIVE lookup_last(_, _, _, _, _, _)
\* Faulty variant: the scan keeps going and the last matching assignment wins.
lookup_last(assignments, object_type, field_name, timestamp, object_id, found) ==
    IF assignments = <<>> THEN Return(found)
    ELSE LET assignment == Head(assignments)
             timestamp_datetime == python_datetime_utc(timestamp)
             rest(f) == lookup_last(Tail(assignments), object_type, field_name, timestamp, object_id, f)
         IN  IF assignment.assigned_type # object_type THEN rest(found)
             ELSE IF Get(assignment.assigned, field_name) # object_id THEN rest(found)
             ELSE IF Raised(timestamp_datetime) THEN timestamp_datetime
             ELSE IF starts_after_timestamp(timestamp_datetime, assignment.start) THEN rest(found)
             ELSE IF ends_before_timestamp(timestamp_datetime, assignment.end) THEN rest(found)
             ELSE rest(assignment.assignment_id)

RECURSIVE lookup_loop(_, _, _, _, _)
\* for assignment in self.environment.get('assignments'): ... return None
lookup_loop(assignments, object_type, field_name, timestamp, object_id) ==
    IF assignments = <<>> THEN Return(None)
    ELSE LET assignment == Head(assignments)
             timestamp_datetime == python_datetime_utc(timestamp)
             rest == lookup_loop(Tail(assignments), object_type, field_name, timestamp, object_id)
         IN  IF assignment.assigned_type # object_type THEN rest
             ELSE IF Get(assignment.assigned, field_name) # object_id THEN rest
             ELSE IF Raised(timestamp_datetime) THEN timestamp_datetime
             ELSE IF starts_after_timestamp(timestamp_datetime, assignment.start) THEN rest
             ELSE IF ends_before_timestamp(timestamp_datetime, assignment.end) THEN rest
             ELSE Return(assignment.assignment_id)

\* Faulty variant of the scan: the last match is returned instead of the first.
lookup_scan_last(assignments, object_type, field_name, timestamp, object_id) ==
    lookup_last(assignments, object_type, field_name, timestamp, object_id, None)

lookup_scan(assignments, object_type, field_name, timestamp, object_id) ==
    lookup_loop(assignments, object_type, field_name, timestamp, object_id)

lookup_assignment_id_object_time_series(self, timestamp, object_id) ==
    IF \/ ~cfg[self].time_series_database
       \/ ~cfg[self].object_database
       \/ cfg[self].environment_name_honeycomb = None
    THEN Raise("UnsupportedMode")
    ELSE lookup_scan(environment[self].assignments, cfg[self].object_type_honeycomb,
                     cfg[self].object_id_field_name_honeycomb, timestamp, object_id)

\* object_ids: None, or a collection of object ids
NoObjectIds == [present |-> FALSE, ids |-> {}]

ObjectIds(ids) == [present |-> TRUE, ids |-> ids]

\* Faulty variant: an assignment ending exactly at start_time is dropped.
assignment_ends_before_touching(start_time, assignment_end) ==
    IF start_time.kind # "None" /\ assignment_end.kind # "None"
    THEN LET s == python_datetime_utc(start_time)
         IN  IF Raised(s) THEN "raise"
             ELSE IF s.clock >= python_datetime_utc(assignment_end).clock THEN "continue" ELSE "keep"
    ELSE "keep"

\* start_time is not None and assignment_end is not None and utc(start_time) > utc(assignment_end)
assignment_ends_before(start_time, assignment_end) ==
    IF start_time.kind # "None" /\ assignment_end.kind # "None"
    THEN LET s == python_datetime_utc(start_time)
         IN  IF Raised(s) THEN "raise"
             ELSE IF s.clock > python_datetime_utc(assignment_end).clock THEN "continue" ELSE "keep"
    ELSE "keep"

\* Faulty variant: an assignment starting exactly at end_time is dropped.
assignment_starts_after_touching(end_time, assignment_start) ==
    IF end_time.kind # "None" /\ assignment_start.kind # "None"
    THEN LET e == python_datetime_utc(end_time)
         IN  IF Raised(e) THEN "raise"
             ELSE IF e.clock <= python_datetime_utc(assignment_start).clock THEN "continue" ELSE "keep"
    ELSE "keep"

\* end_time is not None and assignment_start is not None and utc(end_time) < utc(assignment_start)
assignment_starts_after(end_time, assignment_start) ==
    IF end_time.kind # "None" /\ assignment_start.kind # "None"
    THEN LET e == python_datetime_utc(end_time)
         IN  IF Raised(e) THEN "raise"
             ELSE IF e.clock < python_datetime_utc(assignment_start).clock THEN "continue" ELSE "keep"
    ELSE "keep"

RECURSIVE fetch_ids_loop(_, _, _, _, _, _, _)
\* for assignment in self.environment.get('assignments'): ... append
fetch_ids_loop(assignments, object_type, field_name, start_time, end_time, object_ids, relevant_assignment_ids) ==
    IF assignments = <<>> THEN Return(relevant_assignment_ids)
    ELSE LET assignment == Head(assignments)
             next(acc) == fetch_ids_loop(Tail(assignments), object_type, field_name,
                                         start_time, end_time, object_ids, acc)
             e == assignment_ends_before(start_time, assignment.end)
             s == assignment_starts_after(end_time, assignment.start)
         IN  IF assignment.assigned_type # object_type THEN next(relevant_assignment_ids)
             ELSE IF object_ids.present /\ Get(assignment.assigned, field_name) \notin object_ids.ids
                  THEN next(relevant_assignment_ids)
             ELSE IF e = "raise" THEN Raise("InvalidTimestamp")
             ELSE IF e = "continue" THEN next(relevant_assignment_ids)
             ELSE IF s = "raise" THEN Raise("InvalidTimestamp")
             ELSE IF s = "continue" THEN next(relevant_assignment_ids)
             ELSE next(Append(relevant_assignment_ids, assignment.assignment_id))

fetch_assignment_ids_object_time_series(self, start_time, end_time, object_ids) ==
    IF \/ ~cfg[self].time_series_database
       \/ ~cfg[self].object_database
       \/ cfg[self].environment_name_honeycomb = None
    THEN Raise("UnsupportedMode")
    ELSE fetch_ids_loop(environment[self].assignments, cfg[self].object_type_honeycomb,
                        cfg[self].object_id_field_name_honeycomb,
                        start_time, end_time, object_ids, <<>>)

(***************************************************************************)
(* Datapoint payloads and decoding                                         *)
(***************************************************************************)
EmptyDict == <<>>

\* dict.get(key, default)
GetOr(d, k, default) == IF k \in DOMAIN d THEN d[k] ELSE default

\* a string-or-None field as a value of a flattened record
Val(s) == IF s = None THEN NoneT ELSE Text(s)

\* json.dumps(data_dict)
json_dumps(data_dict) == [kind |-> "json", type |-> "object", fields |-> data_dict]

JsonNumber == [kind |-> "json", type |-> "number"]

NotJson == [kind |-> "notjson"]

\* json.loads(data_string): raises on None and on text that is not JSON
json_loads(data_string) ==
    IF data_string.kind = "json" THEN Return(data_string) ELSE Raise("JSONDecodeError")

\* dict.update(other) with a dict argument
update(datum, other) ==
    [k \in DOMAIN datum \cup DOMAIN other |-> IF k \in DOMAIN other THEN other[k] ELSE datum[k]]

\* Faulty variant: a payload that does not parse drops the whole record's fields.
merge_payload_strict(datum, data_string) ==
    LET data_dict == json_loads(data_string)
    IN  IF Raised(data_dict) THEN EmptyDict
        ELSE IF data_dict.value.type # "object" THEN datum
        ELSE update(datum, data_dict.value.fields)

\* try: data_dict = json.loads(data_string); datum.update(data_dict)  except: pass
merge_payload(datum, data_string) ==
    LET data_dict == json_loads(data_string)
    IN  IF Raised(data_dict) THEN datum
        ELSE IF data_dict.value.type # "object" THEN datum
        ELSE update(datum, data_dict.value.fields)

\* the body of the loop over datapoints in fetch_data_object_time_series
decode(self, datapoint) ==
    LET datum == [timestamp |-> python_datetime_utc(datapoint.observed_time),
                  environment_name |->
                      Val(Get(GetOr(GetOr(datapoint, "observer", EmptyDict), "environment", EmptyDict), "name")),
                  object_id |->
                      Val(Get(GetOr(GetOr(datapoint, "observer", EmptyDict), "assigned", EmptyDict),
                              cfg[self].object_id_field_name_honeycomb))]
        data_string == GetOr(GetOr(datapoint, "file", EmptyDict), "data", NoneT)
    IN  merge_payload(datum, data_string)

(***************************************************************************)
(* Public operations.  call records the most recent operation: its         *)
(* arguments, its outcome, how many assignment lookups it started and the  *)
(* requests it sent to the Honeycomb client.                               *)
(***************************************************************************)
Called(op, self, args, result, lookups, requests) ==
    call' = [op |-> op, self |-> self, args |-> args, result |-> result,
             lookups |-> lookups, requests |-> requests]

NextDataId == IF created = <<>> THEN 1 ELSE created[Len(created)].data_id + 1

\* Faulty variant: the mode check passes unless both flags are off.
write_mode_unsupported_both(self) ==
    ~cfg[self].time_series_database /\ ~cfg[self].object_database

write_mode_unsupported(self) ==
    ~cfg[self].time_series_database \/ ~cfg[self].object_database

fetch_mode_unsupported(self) ==
    ~cfg[self].time_series_database \/ ~cfg[self].object_database

write_data_object_time_series(self, timestamp, object_id, data_dict, remote_accepts) ==
    LET args == [timestamp |-> timestamp, object_id |-> object_id, data_dict |-> data_dict]
        assignment_id == lookup_assignment_id_object_time_series(self, timestamp, object_id)
        timestamp_honeycomb_format == datetime_honeycomb_string(timestamp)
        dp == [observer |-> assignment_id.value,
               format |-> "application/json",
               file |-> [name |-> "datapoint.json", contentType |-> "application/json",
                         data |-> json_dumps(data_dict)],
               observed_time |-> timestamp_honeycomb_format]
        request == [kind |-> "createDatapoint", dp |-> dp]
        done(result, lookups, requests) == Called("write", self, args, result, lookups, requests)
    IN  /\ IF write_mode_unsupported(self)
           THEN done(Raise("UnsupportedMode"), 0, <<>>) /\ UNCHANGED created
           ELSE IF Raised(assignment_id)
           THEN done(assignment_id, 1, <<>>) /\ UNCHANGED created
           ELSE IF Raised(timestamp_honeycomb_format)
           THEN done(timestamp_honeycomb_format, 1, <<>>) /\ UNCHANGED created
           ELSE IF remote_accepts /\ Len(created) < MaxCreated
           THEN /\ created' = Append(created, [data_id |-> NextDataId, dp |-> dp])
                /\ done(Return(NextDataId), 1, <<request>>)
           ELSE done(Raise("RemoteError"), 1, <<request>>) /\ UNCHANGED created
        /\ UNCHANGED <<cfg, environment>>

\* _fetch_datapoints_object_time_series: the result, and the requests it sent
fetch_datapoints_object_time_series(self, start_time, end_time, object_ids, response) ==
    LET assignment_ids == fetch_assignment_ids_object_time_series(self, start_time, end_time, object_ids)
        query_expression_string_ == combined_query_expression_string(assignment_ids.value, start_time, end_time)
        query_string == fetch_datapoints_object_time_series_query_string(query_expression_string_.value)
        request == [kind |-> "query", query_string |-> query_string]
    IN  IF ~cfg[self].time_series_database \/ ~cfg[self].object_database
        THEN [result |-> Raise("UnsupportedMode"), lookups |-> 0, requests |-> <<>>]
        ELSE IF Raised(assignment_ids)
        THEN [result |-> assignment_ids, lookups |-> 1, requests |-> <<>>]
        ELSE IF Raised(query_expression_string_)
        THEN [result |-> query_expression_string_, lookups |-> 1, requests |-> <<>>]
        ELSE [result |-> response, lookups |-> 1, requests |-> <<request>>]

fetch_data_object_time_series(self, start_time, end_time, object_ids, response) ==
    LET args == [start_time |-> start_time, end_time |-> end_time, object_ids |-> object_ids,
                 response |-> response]
        datapoints == fetch_datapoints_object_time_series(self, start_time, end_time, object_ids, response)
        data == [i \in 1..Len(datapoints.result.value) |-> decode(self, datapoints.result.value[i])]
    IN  /\ IF fetch_mode_unsupported(self)
           THEN Called("fetch", self, args, Raise("UnsupportedMode"), 0, <<>>)
           ELSE IF Raised(datapoints.result)
           THEN Called("fetch", self, args, datapoints.result, datapoints.lookups, datapoints.requests)
           ELSE Called("fetch", self, args, Return(data), datapoints.lookups, datapoints.requests)
        /\ UNCHANGED <<cfg, environment, created>>

\* _delete_datapoint: the mutation is sent whatever the mode; the status is
\* read under a key the response does not carry, so None is returned.
delete_datapoint(self, data_id) ==
    /\ created' = SelectSeq(created, LAMBDA r : r.data_id # data_id)
    /\ Called("delete", self, [data_id |-> data_id], Return(None), 0,
              <<[kind |-> "deleteDatapoint", data_id |-> data_id]>>)
    /\ UNCHANGED <<cfg, environment>>

\* Faulty variant: the scan consumes the snapshot's assignment list.
ResolveActive_consuming(self, timestamp, object_id) ==
    /\ Called("resolveActive", self, [timestamp |-> timestamp, object_id |-> object_id],
              lookup_assignment_id_object_time_series(self, timestamp, object_id), 1, <<>>)
    /\ environment' = [environment EXCEPT ![self].assignments = <<>>]
    /\ UNCHANGED <<cfg, created>>

\* a direct call of _lookup_assignment_id_object_time_series
ResolveActive(self, timestamp, object_id) ==
    /\ Called("resolveActive", self, [timestamp |-> timestamp, object_id |-> object_id],
              lookup_assignment_id_object_time_series(self, timestamp, object_id), 1, <<>>)
    /\ UNCHANGED <<cfg, environment, created>>

\* a direct call of _fetch_assignment_ids_object_time_series
ResolveRelevant(self, start_time, end_time, object_ids) ==
    /\ Called("resolveRelevant", self,
              [start_time |-> start_time, end_time |-> end_time, object_ids |-> object_ids],
              fetch_assignment_ids_object_time_series(self, start_time, end_time, object_ids), 1, <<>>)
    /\ UNCHANGED <<cfg, environment, created>>

\* direct calls of the module-level helpers
Normalize(timestamp) ==
    /\ Called("toUtcInstant", "none", [timestamp |-> timestamp], python_datetime_utc(timestamp), 0, <<>>)
    /\ UNCHANGED <<cfg, environment, created>>

RemoteString(timestamp) ==
    /\ Called("toRemoteString", "none", [timestamp |-> timestamp], datetime_honeycomb_string(timestamp), 0, <<>>)
    /\ UNCHANGED <<cfg, environment, created>>

BuildFilter(assignment_ids, start_time, end_time) ==
    /\ Called("buildFilter", "none",
              [assignment_ids |-> assignment_ids, start_time |-> start_time, end_time |-> end_time],
              combined_query_expression_string(assignment_ids, start_time, end_time), 0, <<>>)
    /\ UNCHANGED <<cfg, environment, created>>

(***************************************************************************)
(* Inputs                                                                  *)
(***************************************************************************)
Idle == [op |-> "idle", self |-> "none", args |-> NoneT, result |-> Return(None),
         lookups |-> 0, requests |-> <<>>]

Configs == {Config(ts, ob, env) : ts \in BOOLEAN, ob \in BOOLEAN, env \in {None, "E1"}}

NaiveTimes == {DateTime(c, FALSE, 0) : c \in Clocks}

\* the timestamps callers pass: naive and aware datetimes, ISO strings,
\* text that does not parse
TimestampInputs == NaiveTimes \cup {DateTime(1, TRUE, 1), Str(1, TRUE, 0), BadStr}

IntervalInputs == {NoneT} \cup NaiveTimes

ObjectIdInputs == {"D1", "D2"}

ObjectIdsInputs == {NoObjectIds, ObjectIds({"D1"}), ObjectIds({"D1", "D2"})}

Payloads == {[temperature |-> Text("21.5")]}

\* start and end as the remote environment reports them: null or an ISO string in UTC
BoundInputs == {NoneT} \cup {Str(c, TRUE, 0) : c \in Clocks}

\* the assignments a remote environment may hold
AssignmentInputs(id) ==
    {Assignment(id, "DEVICE", Device("D1"), s, e) : s \in BoundInputs, e \in BoundInputs}
    \cup {Assignment(id, "DEVICE", Device("D2"), NoneT, NoneT),
          Assignment(id, "PERSON", Person("P1"), NoneT, NoneT)}

AssignmentLists ==
    {<<>>}
    \cup {<<a>> : a \in AssignmentInputs("A1")}
    \cup {<<a, b>> : a \in AssignmentInputs("A1"), b \in AssignmentInputs("A2")}

\* the environment the facades of Spec load
RemoteAssignments ==
    <<Assignment("A1", "DEVICE", Device("D1"), Str(1, TRUE, 0), Str(2, TRUE, 0)),
      Assignment("A2", "DEVICE", Device("D1"), Str(2, TRUE, 0), NoneT),
      Assignment("A3", "PERSON", Person("P1"), NoneT, NoneT)>>

\* raw results of findDatapoints
RawDatapoint(observer, file) ==
    [data_id |-> "d", observed_time |-> Str(1, TRUE, 0), observer |-> observer, file |-> file]

AssignmentObserver ==
    [environment |-> [name |-> "E1"], assigned |-> [part_number |-> "D1", tag_id |-> "T1"]]

File(data) == [data |-> data, name |-> "datapoint.json", contentType |-> "application/json"]

RawDatapoints ==
    {RawDatapoint(AssignmentObserver, File(json_dumps([temperature |-> Text("21.5")]))),
     RawDatapoint(AssignmentObserver, File(NotJson)),
     RawDatapoint(AssignmentObserver, File(JsonNumber)),
     [data_id |-> "d", observed_time |-> Str(2, TRUE, 0), observer |-> [assigned |-> [name |-> "P1"]]]}

SeqsUpTo(S, n) == UNION {[1..k -> S] : k \in 0..n}

\* what the client answers to a query: a list of raw results, or a failure
Responses == {Return(l) : l \in SeqsUpTo(RawDatapoints, MaxResults)} \cup {Raise("RemoteError")}

\* the few inputs the operations of Spec are driven with
FewStamps == {DateTime(0, FALSE, 0), DateTime(2, TRUE, 1), BadStr}

FewIntervals ==
    {<<NoneT, NoneT>>, <<DateTime(0, FALSE, 0), DateTime(0, FALSE, 0)>>,
     <<DateTime(1, FALSE, 0), BadStr>>, <<BadStr, NoneT>>}

FewObjectIds == {NoObjectIds, ObjectIds({}), ObjectIds({"D1"})}

FewResponses ==
    {Return(<<>>), Raise("RemoteError"),
     Return(<<RawDatapoint(AssignmentObserver, File(NotJson))>>)}

WallTimes ==
    {DateTime(c, FALSE, 0) : c \in WallClocks} \cup {Str(c, FALSE, 0) : c \in WallClocks}
    \cup {DateTime(c, TRUE, o) : c \in WallClocks, o \in UtcOffsets}
    \cup {Str(c, TRUE, o) : c \in WallClocks, o \in UtcOffsets}
    \cup {BadStr}

AssignmentIdLists ==
    {<<>>} \cup {<<a>> : a \in {"A1", "A2"}} \cup {<<a, b>> : a \in {"A1", "A2"}, b \in {"A1", "A2"}}
    \cup {<<"A1", "A2", "A3">>}

(***************************************************************************)
(* Specifications                                                          *)
(***************************************************************************)
\* Two facades on the same remote environment: F1 constructed from any
\* configuration the constructor accepts, F2 an object time series database.
Init ==
    /\ cfg \in {c \in [Facades -> Configs] :
                   init_accepts(c["F1"]) /\ c["F2"] = Config(TRUE, TRUE, "E1")}
    /\ environment = [f \in Facades |-> init_environment(cfg[f], RemoteAssignments)]
    /\ created = <<>>
    /\ call = Idle

Next ==
    \/ \E self \in Facades, timestamp \in FewStamps, object_id \in ObjectIdInputs,
          data_dict \in Payloads, remote_accepts \in BOOLEAN :
          write_data_object_time_series(self, timestamp, object_id, data_dict, remote_accepts)
    \/ \E self \in Facades, interval \in FewIntervals,
          object_ids \in FewObjectIds, response \in FewResponses :
          fetch_data_object_time_series(self, interval[1], interval[2], object_ids, response)
    \/ \E self \in Facades, data_id \in 1..MaxCreated : delete_datapoint(self, data_id)
    \/ \E self \in Facades, timestamp \in FewStamps, object_id \in ObjectIdInputs :
          ResolveActive(self, timestamp, object_id)
    \/ \E self \in Facades, interval \in FewIntervals, object_ids \in FewObjectIds :
          ResolveRelevant(self, interval[1], interval[2], object_ids)

Spec == Init /\ [][Next]_vars

\* fetch on an object time series database over every response of up to
\* MaxResults raw results.
InitFetch ==
    /\ cfg = [f \in Facades |-> Config(TRUE, TRUE, "E1")]
    /\ environment = [f \in Facades |-> init_environment(cfg[f], RemoteAssignments)]
    /\ created = <<>>
    /\ call = Idle

NextFetch ==
    \E interval \in FewIntervals, object_ids \in FewObjectIds, response \in Responses :
       fetch_data_object_time_series("F1", interval[1], interval[2], object_ids, response)

SpecFetch == InitFetch /\ [][NextFetch]_vars

\* The resolvers over every environment of up to two assignments.
InitResolver ==
    /\ cfg = [f \in Facades |-> Config(TRUE, TRUE, "E1")]
    /\ \E l \in AssignmentLists : environment = [f \in Facades |-> init_environment(cfg[f], l)]
    /\ created = <<>>
    /\ call = Idle

NextResolver ==
    \/ \E timestamp \in TimestampInputs, object_id \in ObjectIdInputs :
          ResolveActive("F1", timestamp, object_id)
    \/ \E start_time \in IntervalInputs, end_time \in IntervalInputs, object_ids \in ObjectIdsInputs :
          ResolveRelevant("F1", start_time, end_time, object_ids)

SpecResolver == InitResolver /\ [][NextResolver]_vars

\* The module-level helpers on their own.
InitHelpers ==
    /\ cfg = [f \in Facades |-> Config(TRUE, TRUE, "E1")]
    /\ environment = [f \in Facades |-> init_environment(cfg[f], RemoteAssignments)]
    /\ created = <<>>
    /\ call = Idle

NextHelpers ==
    \/ \E timestamp \in WallTimes : Normalize(timestamp)
    \/ \E timestamp \in WallTimes : RemoteString(timestamp)
    \/ \E assignment_ids \in AssignmentIdLists, start_time \in TimestampInputs \cup {NoneT},
          end_time \in TimestampInputs \cup {NoneT} :
          BuildFilter(assignment_ids, start_time, end_time)

SpecHelpers == InitHelpers /\ [][NextHelpers]_vars

(***************************************************************************)
(* Properties                                                              *)
(***************************************************************************)
BothFlags(self) == cfg[self].time_series_database /\ cfg[self].object_database

\* the UTC clock value of a timestamp that denotes an instant
Utc(t) == python_datetime_utc(t).clock

IsInstant(t) == t.kind # "None" /\ ~Raised(python_datetime_utc(t))

\* assignment a is of the facade's channel type, assigned to object_id, and
\* its interval [start, end] (null = unbounded, both ends inclusive) holds at
Active(self, a, object_id, at) ==
    /\ a.assigned_type = cfg[self].object_type_honeycomb
    /\ Get(a.assigned, cfg[self].object_id_field_name_honeycomb) = object_id
    /\ (a.start.kind = "None" \/ Utc(a.start) <= at)
    /\ (a.end.kind = "None" \/ at <= Utc(a.end))

ActiveIndexes(self, object_id, at) ==
    {i \in 1..Len(environment[self].assignments) :
        Active(self, environment[self].assignments[i], object_id, at)}

\* C1: a write on a facade with both flags whose assignment lookup finds
\* nothing (NotFound) submits no create-record mutation to the remote client.
C1_NotFoundWriteSubmitsNothing ==
    (/\ call.op = "write"
     /\ BothFlags(call.self)
     /\ lookup_assignment_id_object_time_series(call.self, call.args.timestamp, call.args.object_id)
            = Return(None))
    => \A i \in 1..Len(call.requests) : call.requests[i].kind # "createDatapoint"

\* C2: a fetch on a facade with both flags whose relevant-assignment lookup
\* returns zero ids fails with NoMatchingAssignments and sends no query.
C2_NoIdsFetchFails ==
    (/\ call.op = "fetch"
     /\ BothFlags(call.self)
     /\ fetch_assignment_ids_object_time_series(call.self, call.args.start_time,
            call.args.end_time, call.args.object_ids) = Return(<<>>))
    => /\ call.result = Raise("NoMatchingAssignments")
       /\ call.requests = <<>>

\* C3: resolveActive at an instant returns either the id of an assignment of
\* the configured channel type and the requested target whose interval
\* contains the instant (bounds inclusive, null unbounded), or NotFound, and
\* NotFound only when no assignment of the list is such.
C3_ResolveActiveSound ==
    (call.op = "resolveActive" /\ IsInstant(call.args.timestamp))
    => LET as == environment[call.self].assignments
           active == ActiveIndexes(call.self, call.args.object_id, Utc(call.args.timestamp))
       IN  /\ call.result.kind = "return"
           /\ call.result.value # None
                => \E i \in active : as[i].assignment_id = call.result.value
           /\ call.result.value = None => active = {}

\* C3 witness: an assignment is returned at the very instant it starts, after
\* an earlier assignment of the list was passed over.
C3_Witness ==
    /\ call.op = "resolveActive"
    /\ IsInstant(call.args.timestamp)
    /\ call.result.kind = "return"
    /\ Len(environment[call.self].assignments) = 2
    /\ call.result.value = environment[call.self].assignments[2].assignment_id
    /\ environment[call.self].assignments[2].start.kind # "None"
    /\ Utc(environment[call.self].assignments[2].start) = Utc(call.args.timestamp)

\* C4: when two or more assignments of the same channel type and target are
\* active at the instant, resolveActive returns the one earliest in the list.
C4_FirstMatchWins ==
    (call.op = "resolveActive" /\ IsInstant(call.args.timestamp))
    => LET as == environment[call.self].assignments
           active == ActiveIndexes(call.self, call.args.object_id, Utc(call.args.timestamp))
       IN  Cardinality(active) >= 2
             => \E i \in active : /\ \A j \in active : i <= j
                                  /\ call.result = Return(as[i].assignment_id)

\* C4 witness: two assignments are active, the second one started later and
\* ends sooner than the first, and the first is returned.
C4_Witness ==
    /\ call.op = "resolveActive"
    /\ IsInstant(call.args.timestamp)
    /\ ActiveIndexes(call.self, call.args.object_id, Utc(call.args.timestamp)) = {1, 2}
    /\ LET as == environment[call.self].assignments
       IN  /\ as[1].start.kind # "None" /\ as[2].start.kind # "None"
           /\ as[1].end.kind # "None" /\ as[2].end.kind # "None"
           /\ Utc(as[1].start) < Utc(as[2].start)
           /\ Utc(as[2].end) < Utc(as[1].end)
           /\ call.result = Return(as[1].assignment_id)

\* the assignments resolveRelevant chooses among: those of the configured
\* channel type whose target is in object_ids, or any target when absent
Candidate(self, a, object_ids) ==
    /\ a.assigned_type = cfg[self].object_type_honeycomb
    /\ object_ids.present
         => Get(a.assigned, cfg[self].object_id_field_name_honeycomb) \in object_ids.ids

\* closed intervals [lo1, hi1] and [lo2, hi2] touch or cross; a null bound
\* is unbounded
Overlaps(lo1, hi1, lo2, hi2) ==
    /\ (lo1.kind = "None" \/ hi2.kind = "None" \/ Utc(lo1) <= Utc(hi2))
    /\ (lo2.kind = "None" \/ hi1.kind = "None" \/ Utc(lo2) <= Utc(hi1))

WellFormed(lo, hi) == lo.kind = "None" \/ hi.kind = "None" \/ Utc(lo) <= Utc(hi)

Within(lo, hi, t) == (lo.kind = "None" \/ Utc(lo) <= t) /\ (hi.kind = "None" \/ t <= Utc(hi))

\* some instant lies in both intervals
ShareInstant(lo1, hi1, lo2, hi2) ==
    \E t \in Clocks : Within(lo1, hi1, t) /\ Within(lo2, hi2, t)

InSeq(x, seq) == \E i \in 1..Len(seq) : seq[i] = x

\* C5: among the candidate assignments, resolveRelevant returns exactly those
\* whose interval overlaps the query interval [start, end]: null bounds are
\* unbounded and touching endpoints overlap.  For intervals with start <=
\* end, overlapping is the same as sharing an instant.
C5_RelevantIffOverlaps ==
    (call.op = "resolveRelevant" /\ call.result.kind = "return")
    => LET as == environment[call.self].assignments
           s == call.args.start_time
           e == call.args.end_time
       IN  \A i \in 1..Len(as) :
              Candidate(call.self, as[i], call.args.object_ids)
              => /\ InSeq(as[i].assignment_id, call.result.value)
                      <=> Overlaps(as[i].start, as[i].end, s, e)
                 /\ (WellFormed(as[i].start, as[i].end) /\ WellFormed(s, e))
                      => (InSeq(as[i].assignment_id, call.result.value)
                            <=> ShareInstant(as[i].start, as[i].end, s, e))

\* C5 witness: one candidate is returned whose end touches the query's start,
\* another candidate is left out.
C5_Witness ==
    /\ call.op = "resolveRelevant"
    /\ call.result.kind = "return"
    /\ Len(environment[call.self].assignments) = 2
    /\ LET as == environment[call.self].assignments
       IN  /\ Candidate(call.self, as[1], call.args.object_ids)
           /\ Candidate(call.self, as[2], call.args.object_ids)
           /\ call.args.start_time.kind # "None" /\ as[1].end.kind # "None"
           /\ Utc(as[1].end) = Utc(call.args.start_time)
           /\ call.result = Return(<<as[1].assignment_id>>)

\* C6: on a facade with a mode flag off, write and fetch fail with
\* UnsupportedMode before any assignment lookup and before any request to the
\* remote client; with both flags on neither fails with UnsupportedMode.
C6_ModeGuard ==
    call.op \in {"write", "fetch"}
    => /\ ~BothFlags(call.self)
            => /\ call.result = Raise("UnsupportedMode")
               /\ call.lookups = 0
               /\ call.requests = <<>>
       /\ BothFlags(call.self) => call.result # Raise("UnsupportedMode")

\* C6 witness: a write is refused on a facade that has a flag off although
\* its environment snapshot is loaded.
C6_Witness ==
    /\ call.op = "write"
    /\ ~BothFlags(call.self)
    /\ environment[call.self].loaded
    /\ call.result = Raise("UnsupportedMode")

\* the serialized leaf {field, operator, value}
Leaf(field, operator, value) ==
    <<Tok("{"), TokV("field", Text(field)), TokV("operator", Text(operator)),
      TokV("value", value), Tok("}")>>

RECURSIVE ObserverLeaves(_)
ObserverLeaves(ids) ==
    IF Len(ids) = 1 THEN Leaf("observer", "EQ", Text(ids[1]))
    ELSE Leaf("observer", "EQ", Text(ids[1])) \o <<Tok(", ")>> \o ObserverLeaves(Tail(ids))

\* AND(OR(observer EQ id, ...), [observed_time GTE start], [observed_time LTE end])
ExpectedFilter(ids, start, end) ==
    <<Tok("{"), TokV("operator", Text("AND")), Tok("children: [")>>
    \o <<Tok("{"), TokV("operator", Text("OR")), Tok("children: [")>>
    \o ObserverLeaves(ids)
    \o <<Tok("]"), Tok("}")>>
    \o (IF start.kind # "None"
        THEN <<Tok(", ")>> \o Leaf("observed_time", "GTE", Str(Utc(start), TRUE, 0))
        ELSE <<>>)
    \o (IF end.kind # "None"
        THEN <<Tok(", ")>> \o Leaf("observed_time", "LTE", Str(Utc(end), TRUE, 0))
        ELSE <<>>)
    \o <<Tok("]"), Tok("}")>>

\* C7: for a non-empty list of assignment ids the filter is one top-level AND
\* whose children are, in order, one OR of one (observer, EQ, id) leaf per id
\* in input order, the (observed_time, GTE, start) leaf iff start is given,
\* the (observed_time, LTE, end) leaf iff end is given, and nothing else.
C7_FilterShape ==
    (/\ call.op = "buildFilter"
     /\ call.args.assignment_ids # <<>>
     /\ call.args.start_time.kind = "None" \/ IsInstant(call.args.start_time)
     /\ call.args.end_time.kind = "None" \/ IsInstant(call.args.end_time))
    => call.result = Return(ExpectedFilter(call.args.assignment_ids,
                                           call.args.start_time, call.args.end_time))

\* C7 witness: a filter for three ids with both bounds given, the start in a
\* zone other than UTC.
C7_Witness ==
    /\ call.op = "buildFilter"
    /\ call.args.assignment_ids = <<"A1", "A2", "A3">>
    /\ call.args.start_time = DateTime(1, TRUE, 1)
    /\ IsInstant(call.args.end_time)
    /\ call.result.kind = "return"

\* file.data of a raw result does not parse as a structured payload
Unparseable(raw) ==
    \/ "file" \notin DOMAIN raw
    \/ raw.file.data.kind # "json"
    \/ raw.file.data.type # "object"

RawEnvironmentName(raw) ==
    IF "observer" \in DOMAIN raw /\ "environment" \in DOMAIN raw.observer
    THEN Text(raw.observer.environment.name) ELSE NoneT

RawObjectId(self, raw) ==
    IF /\ "observer" \in DOMAIN raw
       /\ "assigned" \in DOMAIN raw.observer
       /\ cfg[self].object_id_field_name_honeycomb \in DOMAIN raw.observer.assigned
    THEN Text(raw.observer.assigned[cfg[self].object_id_field_name_honeycomb]) ELSE NoneT

BaseKeys == {"timestamp", "environment_name", "object_id"}

\* C8: when the remote query answers with a list of raw results, fetch
\* returns one record per raw result, in the same order, each carrying the
\* timestamp, environment name and object id of its raw result; a raw result
\* whose file.data does not parse raises nothing and yields a record with
\* those three fields and no merged payload field.
C8_OneRecordPerRawResult ==
    (call.op = "fetch" /\ call.requests # <<>> /\ call.args.response.kind = "return")
    => LET raw == call.args.response.value
       IN  /\ call.result.kind = "return"
           /\ Len(call.result.value) = Len(raw)
           /\ \A i \in 1..Len(raw) :
                 /\ BaseKeys \subseteq DOMAIN call.result.value[i]
                 /\ call.result.value[i].timestamp = DateTime(Utc(raw[i].observed_time), TRUE, 0)
                 /\ call.result.value[i].environment_name = RawEnvironmentName(raw[i])
                 /\ call.result.value[i].object_id = RawObjectId(call.self, raw[i])
                 /\ Unparseable(raw[i]) => DOMAIN call.result.value[i] = BaseKeys
                 /\ ~Unparseable(raw[i])
                      => DOMAIN call.result.value[i] = BaseKeys \cup DOMAIN raw[i].file.data.fields

\* C8 witness: two raw results come back, the first with text that is not
\* JSON, the second with a JSON object, and two records are returned.
C8_Witness ==
    /\ call.op = "fetch"
    /\ call.result.kind = "return"
    /\ Len(call.result.value) = 2
    /\ call.args.response.value[1] = RawDatapoint(AssignmentObserver, File(NotJson))
    /\ ~Unparseable(call.args.response.value[2])
    /\ "temperature" \in DOMAIN call.result.value[2]

\* C9: normalising an instant twice gives what normalising it once gives; a
\* value without offset keeps its clock value and gains the UTC offset; a
\* value with an offset has its clock shifted so that it denotes the same
\* instant in UTC.
C9_UtcNormalisation ==
    (call.op = "toUtcInstant" /\ call.result.kind # "raise")
    => LET t == call.args.timestamp
           r == call.result
       IN  /\ python_datetime_utc(r) = r
           /\ r.aware /\ r.utcoffset = 0
           /\ ~t.aware => r.clock = t.clock
           /\ t.aware => r.clock - r.utcoffset = t.clock - t.utcoffset

\* C9 witness: a text timestamp two hours east of UTC was normalised and its
\* clock value moved.
C9_Witness ==
    /\ call.op = "toUtcInstant"
    /\ call.args.timestamp.kind = "str"
    /\ call.args.timestamp.aware
    /\ call.args.timestamp.utcoffset = 2
    /\ call.result.kind = "datetime"
    /\ call.result.clock # call.args.timestamp.clock

\* C10: no operation changes the environment snapshot of any facade.
C10_SnapshotReadOnly == [][environment' = environment]_vars

\* C10 witness: after a write on one facade that resolved assignment A1 and
\* created a remote record, both facades still hold the assignment list
\* loaded at construction.
C10_Witness ==
    /\ call.op = "write"
    /\ call.result.kind = "return"
    /\ created # <<>>
    /\ call.requests[1].dp.observer = "A1"
    /\ \A f \in Facades :
          environment[f] = init_environment(cfg[f], RemoteAssignments)
    /\ environment["F2"].assignments = RemoteAssignments

\* seq holds part as a run of consecutive elements
HasRun(seq, part) ==
    \E k \in 0..(Len(seq) - Len(part)) : \A i \in 1..Len(part) : seq[k + i] = part[i]

\* the query intervals [start, end] that contain instant at; an absent bound
\* is unbounded
IntervalsAround(at) ==
    {iv \in IntervalInputs \X IntervalInputs :
        /\ iv[1].kind = "None" \/ Utc(iv[1]) <= at
        /\ iv[2].kind = "None" \/ at <= Utc(iv[2])}

\* C11: the two resolvers agree.  When resolveActive gives assignment A for a
\* target at instant t, resolveRelevant for that target over [t, t], and over
\* every interval that contains t, returns a list holding A, and the filter
\* built from that list carries the leaf (observer, EQ, A).
C11_ResolversAgree ==
    (/\ call.op = "resolveActive"
     /\ IsInstant(call.args.timestamp)
     /\ call.result.kind = "return"
     /\ call.result.value # None)
    => LET t == call.args.timestamp
           target == ObjectIds({call.args.object_id})
           A == call.result.value
           ids(s, e) == fetch_assignment_ids_object_time_series(call.self, s, e, target)
           filter(s, e) == combined_query_expression_string(ids(s, e).value, s, e)
       IN  /\ ids(t, t).kind = "return"
           /\ InSeq(A, ids(t, t).value)
           /\ \A iv \in IntervalsAround(Utc(t)) :
                 /\ ids(iv[1], iv[2]).kind = "return"
                 /\ InSeq(A, ids(iv[1], iv[2]).value)
                 /\ filter(iv[1], iv[2]).kind = "return"
                 /\ HasRun(filter(iv[1], iv[2]).value, Leaf("observer", "EQ", Text(A)))

\* C11 witness: the second assignment of the list is active at the very
\* instant it starts and the first one, of the same target, is not; the
\* interval [t, t] is among those looked at.
C11_Witness ==
    /\ call.op = "resolveActive"
    /\ IsInstant(call.args.timestamp)
    /\ Len(environment[call.self].assignments) = 2
    /\ LET as == environment[call.self].assignments
           t == Utc(call.args.timestamp)
       IN  /\ call.result = Return(as[2].assignment_id)
           /\ Get(as[1].assigned, cfg[call.self].object_id_field_name_honeycomb) = call.args.object_id
           /\ as[2].start.kind # "None" /\ Utc(as[2].start) = t
           /\ as[2].end.kind # "None" /\ Utc(as[2].end) = t
           /\ <<DateTime(t, FALSE, 0), DateTime(t, FALSE, 0)>> \in IntervalsAround(t)
           /\ Cardinality(IntervalsAround(t)) > 1

====
